---- MODULE Spec2Model ----
(***************************************************************************)
(* The HTML-to-Google-Docs formatting translator of src/app.py:            *)
(* HTMLToDocsParser (a html.parser.HTMLParser subclass), its               *)
(* get_docs_requests method and the parse_html_for_docs wrapper.           *)
(*                                                                         *)
(* html.parser.HTMLParser is the standard library's tokenizer: feed()      *)
(* calls handle_starttag / handle_endtag / handle_data once per token, in  *)
(* document order.  The model takes the token stream as the input and has  *)
(* one action per handler call.  `fed` records the tokens handled so far,  *)
(* so that at the return of feed() it is the whole tokenized input.        *)
(***************************************************************************)
EXTENDS Integers, Sequences, FiniteSets, TLC

VARIABLES
    pc,                 \* where parse_html_for_docs and its caller stand
    html_content,       \* the argument of parse_html_for_docs (its Python type)
    fed,                \* tokens HTMLParser.feed has dispatched so far
    text,               \* self.text
    formatting_ranges,  \* self.formatting_ranges
    current_pos,        \* self.current_pos
    tag_stack,          \* self.tag_stack
    link_url,           \* self.link_url
    ret_text,           \* first component of parse_html_for_docs' result
    ret_parser,         \* second component of parse_html_for_docs' result
    start_index,        \* argument of get_docs_requests
    requests,           \* result of get_docs_requests
    calls,              \* two parse calls in flight: each call's locals
    heap,               \* the HTMLToDocsParser objects allocated so far
    ex_pc,              \* where export_to_docs stands
    request_json,       \* export_to_docs: the request body and the folder configured
    text_content,       \* export_to_docs: text_content
    formatting_requests,\* export_to_docs: formatting_requests
    parse_result,       \* export_to_docs: (parsed_text, parser)
    api_calls,          \* the Drive / Docs API calls made so far, with their outcome
    response            \* export_to_docs: the HTTP response

\* one parse_html_for_docs call and its caller
singleVars == <<pc, html_content, fed, text, formatting_ranges, current_pos,
                tag_stack, link_url, ret_text, ret_parser, start_index, requests>>

\* two interleaved parse_html_for_docs calls
concurrentVars == <<calls, heap>>

\* one export_to_docs request
exportVars == <<ex_pc, request_json, text_content, formatting_requests,
                parse_result, api_calls, response>>

vars == <<singleVars, concurrentVars, exportVars>>

parserVars == <<text, formatting_ranges, current_pos, tag_stack, link_url>>

-----------------------------------------------------------------------------
(* Bounds *)

\* longest token stream fed to one parser
MaxTokens == 5

\* largest start_index handed to get_docs_requests
MaxStartIndex == 2

-----------------------------------------------------------------------------
(* Python values *)

\* Python's None where a string is expected (link_url, fmt['url'], attribute values)
None == "None"

NL == "\n"

PyNone == [tag |-> "None"]
PyStr(s) == [tag |-> "str", v |-> s]
PyList(l) == [tag |-> "list", v |-> l]
PyParser == [tag |-> "HTMLToDocsParser"]
Unset == [tag |-> "unset"]

\* truthiness of a URL value: None and '' are falsy
Truthy(u) == u # None /\ u # ""

\* str.endswith('\n')
EndsWithNL(s) == Len(s) > 0 /\ s[Len(s)] = NL

\* list.pop(i): the list without its i-th element (1-based here)
Pop(l, i) == SubSeq(l, 1, i - 1) \o SubSeq(l, i + 1, Len(l))

-----------------------------------------------------------------------------
(* Tokens: what HTMLParser.feed hands to the handlers *)

StartTag(tag, attrs) == [type |-> "starttag", tag |-> tag, attrs |-> attrs, data |-> <<>>]
EndTag(tag) == [type |-> "endtag", tag |-> tag, attrs |-> <<>>, data |-> <<>>]
Data(d) == [type |-> "data", tag |-> "", attrs |-> <<>>, data |-> d]

Open(tag) == StartTag(tag, <<>>)
Href(u) == StartTag("a", << <<"href", u>> >>)

\* dict(attrs).get(key, default): the last pair of that name wins
AttrsGet(attrs, key, default) ==
    LET hits == {i \in 1..Len(attrs) : attrs[i][1] = key}
    IN  IF hits = {} THEN default
        ELSE attrs[CHOOSE i \in hits : \A j \in hits : j <= i][2]

-----------------------------------------------------------------------------
(* HTMLToDocsParser: the handlers as functions of the parser object *)

\* the object after __init__
NewParser ==
    [text |-> <<>>, formatting_ranges |-> <<>>, current_pos |-> 0,
     tag_stack |-> <<>>, link_url |-> None]

Self ==
    [text |-> text, formatting_ranges |-> formatting_ranges,
     current_pos |-> current_pos, tag_stack |-> tag_stack, link_url |-> link_url]

\* mutant: an opening tag leaves a space in the text where it stood
Push_Spaced(self, tag_type) ==
    [self EXCEPT !.tag_stack = Append(@, <<tag_type, Len(self.text)>>),
                 !.text = Append(@, " ")]

Push(self, tag_type) ==
    [self EXCEPT !.tag_stack = Append(@, <<tag_type, Len(self.text)>>)]

\* mutant: a tag that is not known breaks the line
handle_starttag_UnknownBreaks(self, tag, attrs) ==
    IF tag \in {"strong", "b"} THEN Push(self, "bold")
    ELSE IF tag \in {"em", "i"} THEN Push(self, "italic")
    ELSE IF tag = "u" THEN Push(self, "underline")
    ELSE IF tag = "a" THEN
        Push([self EXCEPT !.link_url = AttrsGet(attrs, "href", "")], "link")
    ELSE IF tag = "h2" THEN Push(self, "heading2")
    ELSE IF tag = "h3" THEN Push(self, "heading3")
    ELSE IF tag = "br" THEN [self EXCEPT !.text = Append(@, NL)]
    ELSE IF tag = "p" THEN
        IF Len(self.text) > 0 /\ ~EndsWithNL(self.text)
        THEN [self EXCEPT !.text = Append(@, NL)]
        ELSE self
    ELSE IF tag = "blockquote" THEN Push(self, "blockquote")
    ELSE [self EXCEPT !.text = Append(@, NL)]

\* mutant: <br> separates like <p>, only when the text does not end in a newline
handle_starttag_BrLikeP(self, tag, attrs) ==
    IF tag \in {"strong", "b"} THEN Push(self, "bold")
    ELSE IF tag \in {"em", "i"} THEN Push(self, "italic")
    ELSE IF tag = "u" THEN Push(self, "underline")
    ELSE IF tag = "a" THEN
        Push([self EXCEPT !.link_url = AttrsGet(attrs, "href", "")], "link")
    ELSE IF tag = "h2" THEN Push(self, "heading2")
    ELSE IF tag = "h3" THEN Push(self, "heading3")
    ELSE IF tag \in {"br", "p"} THEN
        IF Len(self.text) > 0 /\ ~EndsWithNL(self.text)
        THEN [self EXCEPT !.text = Append(@, NL)]
        ELSE self
    ELSE IF tag = "blockquote" THEN Push(self, "blockquote")
    ELSE self

handle_starttag(self, tag, attrs) ==
    IF tag \in {"strong", "b"} THEN Push(self, "bold")
    ELSE IF tag \in {"em", "i"} THEN Push(self, "italic")
    ELSE IF tag = "u" THEN Push(self, "underline")
    ELSE IF tag = "a" THEN
        Push([self EXCEPT !.link_url = AttrsGet(attrs, "href", "")], "link")
    ELSE IF tag = "h2" THEN Push(self, "heading2")
    ELSE IF tag = "h3" THEN Push(self, "heading3")
    ELSE IF tag = "br" THEN [self EXCEPT !.text = Append(@, NL)]
    ELSE IF tag = "p" THEN
        IF Len(self.text) > 0 /\ ~EndsWithNL(self.text)
        THEN [self EXCEPT !.text = Append(@, NL)]
        ELSE self
    ELSE IF tag = "blockquote" THEN Push(self, "blockquote")
    ELSE self

\* mutant: the loop searches from the bottom of the stack
BottommostOf(stack, tag_type) ==
    LET hits == {i \in 1..Len(stack) : stack[i][1] = tag_type}
    IN  IF hits = {} THEN 0 ELSE CHOOSE i \in hits : \A j \in hits : i <= j

\* the index the loop of _close_tag stops at: the topmost entry of tag_type
\* (0 when the loop runs out)
TopmostOf(stack, tag_type) ==
    LET hits == {i \in 1..Len(stack) : stack[i][1] = tag_type}
    IN  IF hits = {} THEN 0 ELSE CHOOSE i \in hits : \A j \in hits : j <= i

\* mutant: `end >= start`, so empty ranges are emitted too
_close_tag_KeepsEmpty(self, tag_type) ==
    LET i == TopmostOf(self.tag_stack, tag_type)
    IN  IF i = 0 THEN self
        ELSE [self EXCEPT
                 !.tag_stack = Pop(@, i),
                 !.formatting_ranges = Append(@,
                     [type |-> tag_type, start |-> self.tag_stack[i][2],
                      end |-> Len(self.text),
                      url |-> IF tag_type = "link" THEN self.link_url ELSE None])]

\* mutant: only the entry on top of the stack may be closed
_close_tag_TopOnly(self, tag_type) ==
    LET i == Len(self.tag_stack)
    IN  IF i = 0 \/ self.tag_stack[i][1] # tag_type THEN self
        ELSE LET start == self.tag_stack[i][2]
                 end == Len(self.text)
                 popped == [self EXCEPT !.tag_stack = Pop(@, i)]
             IN  IF end > start
                 THEN [popped EXCEPT !.formatting_ranges = Append(@,
                          [type |-> tag_type, start |-> start, end |-> end,
                           url |-> IF tag_type = "link" THEN self.link_url ELSE None])]
                 ELSE popped

\* mutant: the new range is put in front of the list
_close_tag_Prepends(self, tag_type) ==
    LET i == TopmostOf(self.tag_stack, tag_type)
    IN  IF i = 0 THEN self
        ELSE LET start == self.tag_stack[i][2]
                 end == Len(self.text)
                 popped == [self EXCEPT !.tag_stack = Pop(@, i)]
             IN  IF end > start
                 THEN [popped EXCEPT !.formatting_ranges =
                          <<[type |-> tag_type, start |-> start, end |-> end,
                             url |-> IF tag_type = "link" THEN self.link_url ELSE None]>>
                              \o @]
                 ELSE popped

_close_tag(self, tag_type) ==
    LET i == TopmostOf(self.tag_stack, tag_type)
    IN  IF i = 0 THEN self
        ELSE LET start == self.tag_stack[i][2]
                 end == Len(self.text)
                 popped == [self EXCEPT !.tag_stack = Pop(@, i)]
             IN  IF end > start
                 THEN [popped EXCEPT !.formatting_ranges = Append(@,
                          [type |-> tag_type, start |-> start, end |-> end,
                           url |-> IF tag_type = "link" THEN self.link_url ELSE None])]
                 ELSE popped

\* mutant: like <p>, no newline is put at the head of an empty text
ForceNL_NonEmpty(self) ==
    IF Len(self.text) > 0 /\ ~EndsWithNL(self.text)
    THEN [self EXCEPT !.text = Append(@, NL)]
    ELSE self

ForceNL(self) ==
    IF ~EndsWithNL(self.text) THEN [self EXCEPT !.text = Append(@, NL)] ELSE self

\* mutant: a heading's newline is forced before its range is closed
handle_endtag_NLFirst(self, tag) ==
    IF tag \in {"strong", "b"} THEN _close_tag(self, "bold")
    ELSE IF tag \in {"em", "i"} THEN _close_tag(self, "italic")
    ELSE IF tag = "u" THEN _close_tag(self, "underline")
    ELSE IF tag = "a" THEN [_close_tag(self, "link") EXCEPT !.link_url = None]
    ELSE IF tag = "h2" THEN _close_tag(ForceNL(self), "heading2")
    ELSE IF tag = "h3" THEN _close_tag(ForceNL(self), "heading3")
    ELSE IF tag \in {"p", "div"} THEN ForceNL(self)
    ELSE IF tag = "blockquote" THEN ForceNL(_close_tag(self, "blockquote"))
    ELSE self

\* mutant: a blockquote's newline is forced before its range is closed
handle_endtag_QuoteNLFirst(self, tag) ==
    IF tag \in {"strong", "b"} THEN _close_tag(self, "bold")
    ELSE IF tag \in {"em", "i"} THEN _close_tag(self, "italic")
    ELSE IF tag = "u" THEN _close_tag(self, "underline")
    ELSE IF tag = "a" THEN [_close_tag(self, "link") EXCEPT !.link_url = None]
    ELSE IF tag = "h2" THEN ForceNL(_close_tag(self, "heading2"))
    ELSE IF tag = "h3" THEN ForceNL(_close_tag(self, "heading3"))
    ELSE IF tag \in {"p", "div"} THEN ForceNL(self)
    ELSE IF tag = "blockquote" THEN _close_tag(ForceNL(self), "blockquote")
    ELSE self

\* mutant: </a> does not clear the link url
handle_endtag_KeepsUrl(self, tag) ==
    IF tag \in {"strong", "b"} THEN _close_tag(self, "bold")
    ELSE IF tag \in {"em", "i"} THEN _close_tag(self, "italic")
    ELSE IF tag = "u" THEN _close_tag(self, "underline")
    ELSE IF tag = "a" THEN _close_tag(self, "link")
    ELSE IF tag = "h2" THEN ForceNL(_close_tag(self, "heading2"))
    ELSE IF tag = "h3" THEN ForceNL(_close_tag(self, "heading3"))
    ELSE IF tag \in {"p", "div"} THEN ForceNL(self)
    ELSE IF tag = "blockquote" THEN ForceNL(_close_tag(self, "blockquote"))
    ELSE self

handle_endtag(self, tag) ==
    IF tag \in {"strong", "b"} THEN _close_tag(self, "bold")
    ELSE IF tag \in {"em", "i"} THEN _close_tag(self, "italic")
    ELSE IF tag = "u" THEN _close_tag(self, "underline")
    ELSE IF tag = "a" THEN [_close_tag(self, "link") EXCEPT !.link_url = None]
    ELSE IF tag = "h2" THEN ForceNL(_close_tag(self, "heading2"))
    ELSE IF tag = "h3" THEN ForceNL(_close_tag(self, "heading3"))
    ELSE IF tag \in {"p", "div"} THEN ForceNL(self)
    ELSE IF tag = "blockquote" THEN ForceNL(_close_tag(self, "blockquote"))
    ELSE self

\* mutant: character data put in front of the text
handle_data_Prepend(self, data) == [self EXCEPT !.text = data \o @]

handle_data(self, data) == [self EXCEPT !.text = @ \o data]

-----------------------------------------------------------------------------
(* get_docs_requests *)

UpdateTextStyle(start, end, textStyle, fields) ==
    [range |-> [startIndex |-> start, endIndex |-> end],
     textStyle |-> textStyle, fields |-> fields]

\* mutant: another link colour
Teal_Blue == [color |-> [rgbColor |-> [red |-> "0", green |-> "0", blue |-> "1"]]]

Teal == [color |-> [rgbColor |-> [red |-> "0", green |-> "0.5", blue |-> "0.5"]]]

\* mutant: a heading-3 is rendered at 14pt without bold
RequestsFor_H3NotBold(fmt, start, end) ==
    IF fmt.type = "bold" THEN
        <<UpdateTextStyle(start, end, [bold |-> TRUE], {"bold"})>>
    ELSE IF fmt.type = "italic" THEN
        <<UpdateTextStyle(start, end, [italic |-> TRUE], {"italic"})>>
    ELSE IF fmt.type = "underline" THEN
        <<UpdateTextStyle(start, end, [underline |-> TRUE], {"underline"})>>
    ELSE IF fmt.type = "link" /\ Truthy(fmt.url) THEN
        <<UpdateTextStyle(start, end,
              [link |-> [url |-> fmt.url], foregroundColor |-> Teal],
              {"link", "foregroundColor"})>>
    ELSE IF fmt.type = "heading2" THEN
        <<UpdateTextStyle(start, end,
              [bold |-> TRUE, fontSize |-> [magnitude |-> 16, unit |-> "PT"]],
              {"bold", "fontSize"})>>
    ELSE IF fmt.type = "heading3" THEN
        <<UpdateTextStyle(start, end,
              [bold |-> FALSE, fontSize |-> [magnitude |-> 14, unit |-> "PT"]],
              {"bold", "fontSize"})>>
    ELSE <<>>

\* mutant: a link range gives a request whatever its url
RequestsFor_AnyLink(fmt, start, end) ==
    IF fmt.type = "bold" THEN
        <<UpdateTextStyle(start, end, [bold |-> TRUE], {"bold"})>>
    ELSE IF fmt.type = "italic" THEN
        <<UpdateTextStyle(start, end, [italic |-> TRUE], {"italic"})>>
    ELSE IF fmt.type = "underline" THEN
        <<UpdateTextStyle(start, end, [underline |-> TRUE], {"underline"})>>
    ELSE IF fmt.type = "link" THEN
        <<UpdateTextStyle(start, end,
              [link |-> [url |-> fmt.url], foregroundColor |-> Teal],
              {"link", "foregroundColor"})>>
    ELSE IF fmt.type = "heading2" THEN
        <<UpdateTextStyle(start, end,
              [bold |-> TRUE, fontSize |-> [magnitude |-> 16, unit |-> "PT"]],
              {"bold", "fontSize"})>>
    ELSE IF fmt.type = "heading3" THEN
        <<UpdateTextStyle(start, end,
              [bold |-> TRUE, fontSize |-> [magnitude |-> 14, unit |-> "PT"]],
              {"bold", "fontSize"})>>
    ELSE <<>>

\* the requests one formatting range appends: a list of one request or of none
RequestsFor(fmt, start, end) ==
    IF fmt.type = "bold" THEN
        <<UpdateTextStyle(start, end, [bold |-> TRUE], {"bold"})>>
    ELSE IF fmt.type = "italic" THEN
        <<UpdateTextStyle(start, end, [italic |-> TRUE], {"italic"})>>
    ELSE IF fmt.type = "underline" THEN
        <<UpdateTextStyle(start, end, [underline |-> TRUE], {"underline"})>>
    ELSE IF fmt.type = "link" /\ Truthy(fmt.url) THEN
        <<UpdateTextStyle(start, end,
              [link |-> [url |-> fmt.url], foregroundColor |-> Teal],
              {"link", "foregroundColor"})>>
    ELSE IF fmt.type = "heading2" THEN
        <<UpdateTextStyle(start, end,
              [bold |-> TRUE, fontSize |-> [magnitude |-> 16, unit |-> "PT"]],
              {"bold", "fontSize"})>>
    ELSE IF fmt.type = "heading3" THEN
        <<UpdateTextStyle(start, end,
              [bold |-> TRUE, fontSize |-> [magnitude |-> 14, unit |-> "PT"]],
              {"bold", "fontSize"})>>
    ELSE <<>>

\* mutant: the start is left relative to the parsed text
RangeStart_Relative(fmt, startIndex) == fmt.start

RangeStart(fmt, startIndex) == startIndex + fmt.start
RangeEnd(fmt, startIndex) == startIndex + fmt.end

\* mutant: each request is put in front of the list
RECURSIVE get_docs_requests_Reversed(_, _)
get_docs_requests_Reversed(ranges, startIndex) ==
    IF ranges = <<>> THEN <<>>
    ELSE LET fmt == Head(ranges)
         IN  get_docs_requests_Reversed(Tail(ranges), startIndex)
                 \o RequestsFor(fmt, RangeStart(fmt, startIndex), RangeEnd(fmt, startIndex))

RECURSIVE get_docs_requests(_, _)
get_docs_requests(ranges, startIndex) ==
    IF ranges = <<>> THEN <<>>
    ELSE LET n == Len(ranges)
             fmt == ranges[n]
         IN  get_docs_requests(SubSeq(ranges, 1, n - 1), startIndex)
                 \o RequestsFor(fmt, RangeStart(fmt, startIndex), RangeEnd(fmt, startIndex))

-----------------------------------------------------------------------------
(* Inputs *)

\* the Python values a JSON body can put in article_html, by how
\* parse_html_for_docs treats them: None, '' and other falsy values, a truthy
\* value that is no string, a non-empty string
ContentKinds == {"None", "empty", "nonstr", "str"}

Hello == <<"h", " ">>
World == <<"w", "o">>
Line == <<"x", NL>>

Chunks == {Hello, World, Line}

\* the token vocabularies of the free streams: every stream of at most
\* v.len tokens of v.toks is fed
Vocabularies ==
    { [toks |-> {Open("strong"), EndTag("strong"), Open("em"), EndTag("em"),
                 Data(World)},
       len |-> MaxTokens],
      [toks |-> {Href("u1"), Href("u2"), Open("a"), EndTag("a"), Data(World)},
       len |-> MaxTokens],
      [toks |-> {Open("h2"), EndTag("h2"), Open("h3"), EndTag("h3"),
                 Data(World), Data(Line)},
       len |-> MaxTokens],
      [toks |-> {Open("blockquote"), EndTag("blockquote"), Open("div"),
                 EndTag("div"), Open("br"), Data(World)},
       len |-> MaxTokens],
      [toks |-> {Open("span"), EndTag("span"), Open("u"), EndTag("u"),
                 Open("i"), EndTag("i"), Data(Hello)},
       len |-> MaxTokens - 1],
      [toks |-> {Href(""), StartTag("a", << <<"href", None>> >>),
                 StartTag("a", << <<"href", "u1">>, <<"href", "u2">> >>),
                 EndTag("a"), EndTag("br"), Open("p"), Data(Line)},
       len |-> MaxTokens - 1] }

\* documents of a fixed shape: the i-th token is one of the i-th set
Templates ==
    { \* <p>text<strong>text</strong></p>
      << {Open("p")}, {Data(d) : d \in Chunks}, {Open("strong"), Open("b")},
         {Data(d) : d \in Chunks}, {EndTag("strong"), EndTag("b")}, {EndTag("p")} >>,
      \* <b>text<b>text</b>text</b>
      << {Open("b")}, {Data(Hello)}, {Open("b"), Open("strong")}, {Data(World)},
         {EndTag("b")}, {Data(Hello), Data(Line)}, {EndTag("b"), EndTag("strong")} >>,
      \* <h2>text<b>text</b></h2>, and the same in <h3> and <blockquote>
      << {Open("h2"), Open("h3"), Open("blockquote")}, {Data(Hello)},
         {Open("b"), Open("strong")}, {Data(World), Data(Line)},
         {EndTag("b"), EndTag("strong")},
         {EndTag("h2"), EndTag("h3"), EndTag("blockquote")} >>,
      \* <a href=u1>text</a><a href=u2>text</a>, and the second link inside
      \* the first: <a href=u1>text<a href=u2>text</a>text</a>
      << {Href("u1")}, {Data(Hello)}, {EndTag("a"), Href("u2")},
         {Href("u2"), Data(World)}, {Data(World), EndTag("a")},
         {EndTag("a"), Data(Hello)}, {EndTag("a")} >> }

Tokens ==
    UNION {v.toks : v \in Vocabularies}
        \cup UNION {UNION {t[i] : i \in 1..Len(t)} : t \in Templates}

Range(s) == {s[i] : i \in 1..Len(s)}

CanFeed(tok) ==
    \/ \E v \in Vocabularies :
        /\ Len(fed) < v.len
        /\ Range(fed) \cup {tok} \subseteq v.toks
    \/ \E t \in Templates :
        /\ Len(fed) < Len(t)
        /\ \A i \in 1..Len(fed) : fed[i] \in t[i]
        /\ tok \in t[Len(fed) + 1]

-----------------------------------------------------------------------------
(* State machine *)

\* the two calls of the interleaved runs
Calls == {1, 2}

\* a call that has not begun: no parser bound, nothing fed, nothing returned
NotCalled ==
    [pc |-> "call", fed |-> <<>>, parser |-> 0, ret_text |-> Unset,
     requests |-> Unset, overlapped |-> FALSE]

\* no interleaved calls in flight
NoCalls == calls = [c \in Calls |-> NotCalled] /\ heap = <<>>

\* no export request in progress
NoExport ==
    /\ ex_pc = "idle"
    /\ request_json = Unset
    /\ text_content = Unset
    /\ formatting_requests = <<>>
    /\ parse_result = Unset
    /\ api_calls = <<>>
    /\ response = Unset

Init ==
    /\ pc = "call"
    /\ html_content \in ContentKinds
    /\ fed = <<>>
    /\ text = NewParser.text
    /\ formatting_ranges = NewParser.formatting_ranges
    /\ current_pos = NewParser.current_pos
    /\ tag_stack = NewParser.tag_stack
    /\ link_url = NewParser.link_url
    /\ ret_text = Unset
    /\ ret_parser = Unset
    /\ start_index = 0
    /\ requests = <<>>
    /\ NoCalls
    /\ NoExport

SetParser(self) ==
    /\ text' = self.text
    /\ formatting_ranges' = self.formatting_ranges
    /\ current_pos' = self.current_pos
    /\ tag_stack' = self.tag_stack
    /\ link_url' = self.link_url

\* mutant: an empty input is answered like a failure, (None, None)
ReturnEmpty_AsFailure ==
    /\ pc = "call"
    /\ html_content \in {"None", "empty"}
    /\ ret_text' = PyNone
    /\ ret_parser' = PyNone
    /\ pc' = "returned"
    /\ UNCHANGED <<concurrentVars, exportVars, html_content, fed, parserVars, start_index, requests>>

\* parse_html_for_docs: `if not html_content: return None, []`
ReturnEmpty ==
    /\ pc = "call"
    /\ html_content \in {"None", "empty"}
    /\ ret_text' = PyNone
    /\ ret_parser' = PyList(<<>>)
    /\ pc' = "returned"
    /\ UNCHANGED <<concurrentVars, exportVars, html_content, fed, parserVars, start_index, requests>>

\* parse_html_for_docs: parser = HTMLToDocsParser(); parser.feed(html_content) begins
StartFeed ==
    /\ pc = "call"
    /\ html_content = "str"
    /\ SetParser(NewParser)
    /\ pc' = "feed"
    /\ UNCHANGED <<concurrentVars, exportVars, html_content, fed, ret_text, ret_parser, start_index, requests>>

\* parser.feed raises (rawdata + html_content of a non-string): `return None, None`
FeedRaises ==
    /\ pc = "call"
    /\ html_content = "nonstr"
    /\ SetParser(NewParser)
    /\ ret_text' = PyNone
    /\ ret_parser' = PyNone
    /\ pc' = "returned"
    /\ UNCHANGED <<concurrentVars, exportVars, html_content, fed, start_index, requests>>

\* HTMLParser.feed: the handler call of one token
DispatchOn(self, tok) ==
    IF tok.type = "starttag" THEN handle_starttag(self, tok.tag, tok.attrs)
    ELSE IF tok.type = "endtag" THEN handle_endtag(self, tok.tag)
    ELSE handle_data(self, tok.data)

Dispatch(tok) == DispatchOn(Self, tok)

\* parser.feed of a whole token stream on the object self
RECURSIVE feed(_, _)
feed(self, toks) ==
    IF toks = <<>> THEN self
    ELSE DispatchOn(feed(self, SubSeq(toks, 1, Len(toks) - 1)), toks[Len(toks)])

Feed(tok) ==
    /\ pc = "feed"
    /\ CanFeed(tok)
    /\ SetParser(Dispatch(tok))
    /\ fed' = Append(fed, tok)
    /\ UNCHANGED <<concurrentVars, exportVars, pc, html_content, ret_text, ret_parser, start_index, requests>>

HandleStartTag == \E tok \in Tokens : tok.type = "starttag" /\ Feed(tok)
HandleEndTag == \E tok \in Tokens : tok.type = "endtag" /\ Feed(tok)
HandleData == \E tok \in Tokens : tok.type = "data" /\ Feed(tok)

\* mutant: at the end of the input the tags still open are closed
ReturnParsed_FlushOpen ==
    /\ pc = "feed"
    /\ fed # <<>>
    /\ formatting_ranges' = formatting_ranges \o
          [i \in 1..Len(tag_stack) |->
              [type |-> tag_stack[i][1], start |-> tag_stack[i][2],
               end |-> Len(text), url |-> None]]
    /\ tag_stack' = <<>>
    /\ ret_text' = PyStr(text)
    /\ ret_parser' = PyParser
    /\ pc' = "returned"
    /\ UNCHANGED <<concurrentVars, exportVars, html_content, fed, text, current_pos, link_url, start_index, requests>>

\* parser.feed returns at the end of the input: `return parser.text, parser`
ReturnParsed ==
    /\ pc = "feed"
    /\ fed # <<>>
    /\ ret_text' = PyStr(text)
    /\ ret_parser' = PyParser
    /\ pc' = "returned"
    /\ UNCHANGED <<concurrentVars, exportVars, html_content, fed, parserVars, start_index, requests>>

\* mutant: the ranges are consumed as they are converted
GetDocsRequests_Drains ==
    /\ pc = "returned"
    /\ ret_parser = PyParser
    /\ \E b \in 1..MaxStartIndex :
        /\ start_index' = b
        /\ requests' = get_docs_requests(formatting_ranges, b)
    /\ formatting_ranges' = <<>>
    /\ pc' = "done"
    /\ UNCHANGED <<concurrentVars, exportVars, html_content, fed, text, current_pos, tag_stack, link_url,
                   ret_text, ret_parser>>

\* the caller: parser.get_docs_requests(start_index)
GetDocsRequests ==
    /\ pc = "returned"
    /\ ret_parser = PyParser
    /\ \E b \in 1..MaxStartIndex :
        /\ start_index' = b
        /\ requests' = get_docs_requests(formatting_ranges, b)
    /\ pc' = "done"
    /\ UNCHANGED <<concurrentVars, exportVars, html_content, fed, parserVars, ret_text, ret_parser>>

Next ==
    \/ ReturnEmpty
    \/ StartFeed
    \/ FeedRaises
    \/ HandleStartTag
    \/ HandleEndTag
    \/ HandleData
    \/ ReturnParsed
    \/ GetDocsRequests

Spec == Init /\ [][Next]_vars

-----------------------------------------------------------------------------
(* Two parse_html_for_docs calls in flight at once (two requests served by  *)
(* two threads).  Each call runs parse_html_for_docs and then its caller's  *)
(* get_docs_requests; the handler calls of the two are interleaved freely.  *)

\* no single call outside the interleaved runs and the export
NoSingleCall ==
    /\ pc = "idle"
    /\ html_content = "None"
    /\ fed = <<>>
    /\ text = NewParser.text
    /\ formatting_ranges = NewParser.formatting_ranges
    /\ current_pos = NewParser.current_pos
    /\ tag_stack = NewParser.tag_stack
    /\ link_url = NewParser.link_url
    /\ ret_text = Unset
    /\ ret_parser = Unset
    /\ start_index = 0
    /\ requests = <<>>

\* mutant: one parser object, made by the first call, serves every call
HTMLToDocsParser_Singleton(objects) ==
    IF objects = <<>> THEN [heap |-> <<NewParser>>, ref |-> 1]
    ELSE [heap |-> objects, ref |-> 1]

\* HTMLToDocsParser(): a new object, whose __init__ binds a fresh '' and fresh
\* lists to the instance attributes
HTMLToDocsParser(objects) ==
    [heap |-> Append(objects, NewParser), ref |-> Len(objects) + 1]

\* the longest input of an interleaved call
MaxCallTokens == MaxTokens - 2

\* what a call's input is made of: each call has its own text
CallTokens(c) ==
    {Open("b"), EndTag("b"), Data(IF c = 1 THEN Hello ELSE World)}

Other(c) == CHOOSE d \in Calls : d # c

InitConcurrent ==
    /\ NoSingleCall
    /\ NoCalls
    /\ NoExport

\* parse_html_for_docs: parser = HTMLToDocsParser()
CallAllocate(c) ==
    /\ calls[c].pc = "call"
    /\ LET made == HTMLToDocsParser(heap)
       IN  /\ heap' = made.heap
           /\ calls' = [calls EXCEPT ![c].parser = made.ref, ![c].pc = "feed"]
    /\ UNCHANGED <<singleVars, exportVars>>

\* parser.feed: one handler call of call c, on the object bound to its `parser`
CallHandle(c) ==
    /\ calls[c].pc = "feed"
    /\ Len(calls[c].fed) < MaxCallTokens
    /\ \E tok \in CallTokens(c) :
        /\ heap' = [heap EXCEPT ![calls[c].parser] = DispatchOn(@, tok)]
        /\ calls' = [calls EXCEPT
              ![c].fed = Append(@, tok),
              ![c].overlapped =
                  @ \/ (calls[Other(c)].pc = "feed" /\ calls[Other(c)].fed # <<>>)]
    /\ UNCHANGED <<singleVars, exportVars>>

\* `return parser.text, parser`
CallReturn(c) ==
    /\ calls[c].pc = "feed"
    /\ calls[c].fed # <<>>
    /\ calls' = [calls EXCEPT
          ![c].ret_text = PyStr(heap[calls[c].parser].text),
          ![c].pc = "returned"]
    /\ UNCHANGED <<heap, singleVars, exportVars>>

\* the caller: parser.get_docs_requests(start_index=1)
CallGetDocsRequests(c) ==
    /\ calls[c].pc = "returned"
    /\ calls' = [calls EXCEPT
          ![c].requests = get_docs_requests(heap[calls[c].parser].formatting_ranges, 1),
          ![c].pc = "done"]
    /\ UNCHANGED <<heap, singleVars, exportVars>>

NextConcurrent ==
    \/ \E c \in Calls : CallAllocate(c)
    \/ \E c \in Calls : CallHandle(c)
    \/ \E c \in Calls : CallReturn(c)
    \/ \E c \in Calls : CallGetDocsRequests(c)

SpecConcurrent == InitConcurrent /\ [][NextConcurrent]_vars

-----------------------------------------------------------------------------
(* export_to_docs: one request.  The Drive and Docs services are outside    *)
(* the program: each of their calls succeeds or raises, and api_calls       *)
(* records the calls in order with their outcome.                           *)

PyInt(n) == [tag |-> "int", v |-> n]

\* the parser object as a value: `parser` of `return parser.text, parser`
PyParserOf(self) == [tag |-> "HTMLToDocsParser", obj |-> self]

\* truthiness of a Python value
PyTruthy(v) ==
    /\ v.tag # "None"
    /\ v.tag \in {"str", "list"} => v.v # <<>>
    /\ v.tag = "int" => v.v # 0

\* parse_html_for_docs as a function of its argument; an HTML string is
\* held as the token stream HTMLParser makes of it
parse_html_for_docs(content) ==
    IF ~PyTruthy(content)
    THEN [parsed_text |-> PyNone, parser |-> PyList(<<>>)]
    ELSE IF content.tag # "str"
    THEN [parsed_text |-> PyNone, parser |-> PyNone]
    ELSE LET parser == feed(NewParser, content.v)
         IN  [parsed_text |-> PyStr(parser.text), parser |-> PyParserOf(parser)]

\* mutant: when the HTML gives no text the HTML value itself is exported
ChooseContent_RawHtml(article, article_html) ==
    LET parsed == parse_html_for_docs(article_html)
    IN  IF PyTruthy(article_html) /\ PyTruthy(parsed.parsed_text) /\ PyTruthy(parsed.parser)
        THEN [text_content |-> parsed.parsed_text,
              formatting_requests |->
                  get_docs_requests(parsed.parser.obj.formatting_ranges, 1),
              parse_result |-> parsed]
        ELSE [text_content |-> IF PyTruthy(article_html) THEN article_html ELSE article,
              formatting_requests |-> <<>>,
              parse_result |-> IF PyTruthy(article_html) THEN parsed ELSE Unset]

\* mutant: the style operations of the parse are kept but the plain article
\* is the text inserted
ChooseContent_StylesOverArticle(article, article_html) ==
    LET parsed == parse_html_for_docs(article_html)
    IN  IF PyTruthy(article_html) /\ PyTruthy(parsed.parsed_text) /\ PyTruthy(parsed.parser)
        THEN [text_content |-> article,
              formatting_requests |->
                  get_docs_requests(parsed.parser.obj.formatting_ranges, 1),
              parse_result |-> parsed]
        ELSE [text_content |-> article,
              formatting_requests |-> <<>>,
              parse_result |-> IF PyTruthy(article_html) THEN parsed ELSE Unset]

\* export_to_docs: text_content and formatting_requests, from `text_content =
\* article` to the end of `if article_html:`
ChooseContent(article, article_html) ==
    LET parsed == parse_html_for_docs(article_html)
    IN  IF PyTruthy(article_html) /\ PyTruthy(parsed.parsed_text) /\ PyTruthy(parsed.parser)
        THEN [text_content |-> parsed.parsed_text,
              formatting_requests |->
                  get_docs_requests(parsed.parser.obj.formatting_ranges, 1),
              parse_result |-> parsed]
        ELSE [text_content |-> article,
              formatting_requests |-> <<>>,
              parse_result |-> IF PyTruthy(article_html) THEN parsed ELSE Unset]

\* the values of data.get('article'): absent, or the article's plain text
Articles == {PyNone, PyStr(Hello)}

\* the values of data.get('article_html'): absent, '', a JSON number, HTML
ArticleHtmls ==
    {PyNone, PyStr(<<>>), PyInt(5)} \cup
    {PyStr(toks) : toks \in
        { <<Data(World)>>,
          <<Open("b"), EndTag("b")>>,
          <<Open("b"), Data(World), EndTag("b")>>,
          <<Open("blockquote"), Data(Line), EndTag("blockquote")>>,
          <<Open("h2"), Data(Hello), Href("u1"), Data(World), EndTag("a"), EndTag("h2")>> }}

\* FOLDER_IDS.get(pub_key, {}).get(folder_type): not configured, or an id
FolderIds == {PyNone, PyStr(<<"f">>)}

Requests ==
    [article : Articles, article_html : ArticleHtmls, folder_id : FolderIds]

InitExport ==
    /\ NoSingleCall
    /\ NoCalls
    /\ ex_pc = "request"
    /\ request_json \in Requests
    /\ text_content = Unset
    /\ formatting_requests = <<>>
    /\ parse_result = Unset
    /\ api_calls = <<>>
    /\ response = Unset

ApiCall(op, body, ok) == [op |-> op, body |-> body, ok |-> ok]

ErrorResponse(status) == [status |-> status, success |-> FALSE, formatting_applied |-> FALSE]

\* `return jsonify({'success': True, ..., 'formatting_applied': ...})`
SuccessResponse(applied) == [status |-> 200, success |-> TRUE, formatting_applied |-> applied]

\* a return or the outer `except Exception`: the response is made and the
\* request is over
Respond(r) ==
    /\ response' = r
    /\ ex_pc' = "done"

\* get_google_docs_service() returns the two services
GetService ==
    /\ ex_pc = "request"
    /\ ex_pc' = "folder"
    /\ UNCHANGED <<request_json, text_content, formatting_requests, parse_result,
                   api_calls, response, singleVars, concurrentVars>>

\* get_google_docs_service() raises: the outer except answers 500
GetServiceRaises ==
    /\ ex_pc = "request"
    /\ Respond(ErrorResponse(500))
    /\ UNCHANGED <<request_json, text_content, formatting_requests, parse_result,
                   api_calls, singleVars, concurrentVars>>

\* `if not folder_id: return jsonify({'error': 'Folder ID not configured'}), 400`
FolderNotConfigured ==
    /\ ex_pc = "folder"
    /\ ~PyTruthy(request_json.folder_id)
    /\ Respond(ErrorResponse(400))
    /\ UNCHANGED <<request_json, text_content, formatting_requests, parse_result,
                   api_calls, singleVars, concurrentVars>>

\* mutant: a failed folder check is passed over and the document is created
CheckFolder_FailureIgnored ==
    /\ ex_pc = "folder"
    /\ PyTruthy(request_json.folder_id)
    /\ \E ok \in BOOLEAN :
        api_calls' = Append(api_calls, ApiCall("files.get", request_json.folder_id, ok))
    /\ ex_pc' = "create"
    /\ UNCHANGED <<request_json, text_content, formatting_requests, parse_result,
                   response, singleVars, concurrentVars>>

\* drive_service.files().get(fileId=folder_id, ...).execute()
CheckFolder ==
    /\ ex_pc = "folder"
    /\ PyTruthy(request_json.folder_id)
    /\ \E ok \in BOOLEAN :
        /\ api_calls' = Append(api_calls, ApiCall("files.get", request_json.folder_id, ok))
        /\ IF ok THEN ex_pc' = "create" /\ UNCHANGED response
           ELSE Respond(ErrorResponse(500))
    /\ UNCHANGED <<request_json, text_content, formatting_requests, parse_result,
                   singleVars, concurrentVars>>

\* drive_service.files().create(body=doc_metadata, ...).execute()
CreateDocument ==
    /\ ex_pc = "create"
    /\ \E ok \in BOOLEAN :
        /\ api_calls' = Append(api_calls, ApiCall("files.create", request_json.folder_id, ok))
        /\ IF ok THEN ex_pc' = "parse" /\ UNCHANGED response
           ELSE Respond(ErrorResponse(500))
    /\ UNCHANGED <<request_json, text_content, formatting_requests, parse_result,
                   singleVars, concurrentVars>>

\* text_content = article; formatting_requests = []; if article_html: ...
ParseArticleHtml ==
    /\ ex_pc = "parse"
    /\ LET chosen == ChooseContent(request_json.article, request_json.article_html)
       IN  /\ text_content' = chosen.text_content
           /\ formatting_requests' = chosen.formatting_requests
           /\ parse_result' = chosen.parse_result
    /\ ex_pc' = "insert"
    /\ UNCHANGED <<request_json, api_calls, response, singleVars, concurrentVars>>

\* mutant: a failed insertion is passed over and the export goes on
InsertText_FailureIgnored ==
    /\ ex_pc = "insert"
    /\ \E ok \in BOOLEAN :
        /\ ok => text_content.tag = "str"
        /\ api_calls' = Append(api_calls,
              ApiCall("insertText", [index |-> 1, text |-> text_content], ok))
    /\ ex_pc' = "format"
    /\ UNCHANGED <<request_json, text_content, formatting_requests, parse_result,
                   response, singleVars, concurrentVars>>

\* insertText at index 1 of a text: the service takes it or raises; a text
\* that is no string is never taken
InsertText ==
    /\ ex_pc = "insert"
    /\ \E ok \in BOOLEAN :
        /\ ok => text_content.tag = "str"
        /\ api_calls' = Append(api_calls,
              ApiCall("insertText", [index |-> 1, text |-> text_content], ok))
        /\ IF ok THEN ex_pc' = "format" /\ UNCHANGED response
           ELSE Respond(ErrorResponse(500))
    /\ UNCHANGED <<request_json, text_content, formatting_requests, parse_result,
                   singleVars, concurrentVars>>

\* mutant: the error of the style batch reaches the outer except
ApplyFormatting_Fatal ==
    /\ ex_pc = "format"
    /\ formatting_requests # <<>>
    /\ \E ok \in BOOLEAN :
        /\ api_calls' = Append(api_calls, ApiCall("updateTextStyle", formatting_requests, ok))
        /\ IF ok THEN ex_pc' = "share" /\ UNCHANGED response
           ELSE Respond(ErrorResponse(500))
    /\ UNCHANGED <<request_json, text_content, formatting_requests, parse_result,
                   singleVars, concurrentVars>>

\* `if formatting_requests:` the style batch; its failure is printed and the
\* export goes on
ApplyFormatting ==
    /\ ex_pc = "format"
    /\ formatting_requests # <<>>
    /\ \E ok \in BOOLEAN :
        api_calls' = Append(api_calls, ApiCall("updateTextStyle", formatting_requests, ok))
    /\ ex_pc' = "share"
    /\ UNCHANGED <<request_json, text_content, formatting_requests, parse_result,
                   response, singleVars, concurrentVars>>

\* `if formatting_requests:` with an empty list: no batch is sent
NoFormatting ==
    /\ ex_pc = "format"
    /\ formatting_requests = <<>>
    /\ ex_pc' = "share"
    /\ UNCHANGED <<request_json, text_content, formatting_requests, parse_result,
                   api_calls, response, singleVars, concurrentVars>>

\* drive_service.permissions().create(...).execute(), then the success response
ShareDocument ==
    /\ ex_pc = "share"
    /\ \E ok \in BOOLEAN :
        /\ api_calls' = Append(api_calls,
              ApiCall("permissions.create", [type |-> "anyone", role |-> "reader"], ok))
        /\ IF ok THEN Respond(SuccessResponse(Len(formatting_requests) > 0))
           ELSE Respond(ErrorResponse(500))
    /\ UNCHANGED <<request_json, text_content, formatting_requests, parse_result,
                   singleVars, concurrentVars>>

NextExport ==
    \/ GetService
    \/ GetServiceRaises
    \/ FolderNotConfigured
    \/ CheckFolder
    \/ CreateDocument
    \/ ParseArticleHtml
    \/ InsertText
    \/ ApplyFormatting
    \/ NoFormatting
    \/ ShareDocument

SpecExport == InitExport /\ [][NextExport]_vars

-----------------------------------------------------------------------------
(* Vocabulary of the properties *)

\* parse_html_for_docs has returned a parse: (parser.text, parser)
Parsed == pc \in {"returned", "done"} /\ ret_parser = PyParser

RangeIdx == 1..Len(formatting_ranges)

\* two half-open spans share a character offset
Overlap(r1, r2) == r1.start < r2.end /\ r2.start < r1.end

Disjoint(r1, r2) == ~Overlap(r1, r2)

Contains(r1, r2) == r1.start <= r2.start /\ r2.end <= r1.end

InText(r) == 0 <= r.start /\ r.start < r.end /\ r.end <= Len(text)

SupportedTags ==
    {"strong", "b", "em", "i", "u", "a", "h2", "h3", "br", "p", "div", "blockquote"}

\* every tag is a supported one, every element but the void <br> is closed,
\* and elements are properly nested
RECURSIVE Balanced(_, _)
Balanced(toks, open) ==
    IF toks = <<>> THEN open = <<>>
    ELSE LET tok == Head(toks)
             rest == Tail(toks)
         IN  IF tok.type = "data" THEN Balanced(rest, open)
             ELSE IF tok.tag \notin SupportedTags THEN FALSE
             ELSE IF tok.type = "starttag" THEN
                 IF tok.tag = "br" THEN Balanced(rest, open)
                 ELSE Balanced(rest, Append(open, tok.tag))
             ELSE /\ open # <<>>
                  /\ open[Len(open)] = tok.tag
                  /\ Balanced(rest, SubSeq(open, 1, Len(open) - 1))

WellFormed(toks) == Balanced(toks, <<>>)

IsData(tok) == tok.type = "data"
IsStart(tok, tags) == tok.type = "starttag" /\ tok.tag \in tags
IsEnd(tok, tags) == tok.type = "endtag" /\ tok.tag \in tags

\* s with a single trailing newline: its own when it ends in one, else an added one
WithTrailingNL(s) == IF EndsWithNL(s) THEN s ELSE Append(s, NL)

-----------------------------------------------------------------------------
(* C1 *)

FalsyInput == html_content \in {"None", "empty"}

\* C1 (as claimed): parsing an empty string or a null input returns text = ""
\* and ranges = [], and is not an error.
C1_EmptyTextClaimed ==
    (pc = "returned" /\ FalsyInput) =>
        /\ ret_text = PyStr(<<>>)
        /\ ret_parser = PyList(<<>>)

\* C1 (amended): parsing an empty string or a null input returns None as the
\* text (not "") together with the empty list []; this is not an error: the
\* result differs from the failure result (None, None), no parser is fed and
\* nothing is parsed.
C1_EmptyInputReturnsNoneAndEmptyList ==
    (pc = "returned" /\ FalsyInput) =>
        /\ ret_text = PyNone
        /\ ret_parser = PyList(<<>>)
        /\ ret_parser # PyNone
        /\ fed = <<>> /\ Self = NewParser

C1_Witness == pc = "returned" /\ html_content = "empty" /\ ret_text = PyNone

-----------------------------------------------------------------------------
(* C2 *)

\* C2: for a well-formed input of supported tags only, every emitted range
\* satisfies 0 <= start < end <= len(text), text being the final text.
C2_RangesWithinFinalText ==
    (Parsed /\ WellFormed(fed)) =>
        \A i \in RangeIdx : InText(formatting_ranges[i])

C2_Witness ==
    /\ Parsed /\ WellFormed(fed)
    /\ Len(formatting_ranges) >= 2
    /\ \E i \in RangeIdx : formatting_ranges[i].end < Len(text)

-----------------------------------------------------------------------------
(* C3 *)

SameKind(i, j) == formatting_ranges[i].type = formatting_ranges[j].type

\* C3 (as claimed): no two emitted ranges of the same kind overlap.
C3_SameKindNeverOverlapClaimed ==
    \A i, j \in RangeIdx :
        (i # j /\ SameKind(i, j)) =>
            Disjoint(formatting_ranges[i], formatting_ranges[j])

\* C3 (amended): two emitted ranges of the same kind never overlap partially:
\* they are disjoint or one contains the other (nested tags of one kind, as in
\* <b><b>x</b></b>, emit overlapping ranges); ranges of different kinds may
\* overlap.
C3_SameKindDisjointOrNested ==
    \A i, j \in RangeIdx :
        (i # j /\ SameKind(i, j)) =>
            \/ Disjoint(formatting_ranges[i], formatting_ranges[j])
            \/ Contains(formatting_ranges[i], formatting_ranges[j])
            \/ Contains(formatting_ranges[j], formatting_ranges[i])

\* a span closed strictly inside another span of its kind
C3_Witness ==
    /\ Parsed
    /\ \E i, j \in RangeIdx :
        /\ i < j /\ SameKind(i, j)
        /\ formatting_ranges[j].start < formatting_ranges[i].start
        /\ formatting_ranges[i].end < formatting_ranges[j].end

-----------------------------------------------------------------------------
(* C4 *)

ReqIdx == 1..Len(requests)

Covers(q, idx) == q.range.startIndex <= idx /\ idx < q.range.endIndex

\* the request that wrote field f of the character at idx last, when the
\* requests are applied in the order order[1], order[2], ...; 0 when none did
LastWriter(order, idx, f) ==
    LET ks == {k \in ReqIdx : Covers(requests[order[k]], idx)
                                /\ f \in requests[order[k]].fields}
    IN  IF ks = {} THEN 0 ELSE order[CHOOSE k \in ks : \A m \in ks : m <= k]

StyleFields == {"bold", "italic", "underline", "link", "foregroundColor", "fontSize"}

DocIndexes == start_index..(start_index + Len(text))

\* both orders leave every character with the same value of every field
SameFinalStyles(o1, o2) ==
    \A idx \in DocIndexes, f \in StyleFields :
        LET w1 == LastWriter(o1, idx, f)
            w2 == LastWriter(o2, idx, f)
        IN  IF w1 = 0 THEN w2 = 0
            ELSE w2 # 0 /\ requests[w1].textStyle[f] = requests[w2].textStyle[f]

OrderIndependent ==
    \A o \in Permutations(ReqIdx) : SameFinalStyles([k \in ReqIdx |-> k], o)

\* two ranges whose requests give some field different values
ConflictingAttrs(r1, r2) ==
    LET q1 == RequestsFor(r1, r1.start, r1.end)
        q2 == RequestsFor(r2, r2.start, r2.end)
    IN  /\ q1 # <<>> /\ q2 # <<>>
        /\ \E f \in q1[1].fields \cap q2[1].fields :
               q1[1].textStyle[f] # q2[1].textStyle[f]

\* C4 (as claimed): every permutation of the style operations yields the same
\* final per-character attributes, provided no two ranges of different kinds
\* set conflicting attributes on identical spans.
C4_OrderIndependentUnlessIdenticalSpansClaimed ==
    (pc = "done"
       /\ ~\E i, j \in RangeIdx :
             /\ ~SameKind(i, j)
             /\ ConflictingAttrs(formatting_ranges[i], formatting_ranges[j])
             /\ formatting_ranges[i].start = formatting_ranges[j].start
             /\ formatting_ranges[i].end = formatting_ranges[j].end)
    => OrderIndependent

HeadingsOverlap ==
    \E i, j \in RangeIdx :
        /\ formatting_ranges[i].type = "heading2"
        /\ formatting_ranges[j].type = "heading3"
        /\ Overlap(formatting_ranges[i], formatting_ranges[j])

\* C4 (amended): every permutation of the style operations yields the same
\* final per-character attributes, provided no heading-2 range shares a
\* character with a heading-3 range, whether their spans are identical or not.
C4_OrderIndependentUnlessHeadingsOverlap ==
    (pc = "done" /\ ~HeadingsOverlap) => OrderIndependent

C4_Witness ==
    /\ pc = "done" /\ ~HeadingsOverlap
    /\ \E i, j \in ReqIdx :
        /\ i # j
        /\ requests[i].fields \cap requests[j].fields # {}
        /\ \E idx \in DocIndexes : Covers(requests[i], idx) /\ Covers(requests[j], idx)

-----------------------------------------------------------------------------
(* C5 *)

\* fed is <p> d1 <strong> d2 </strong> </p> (or with <b>)
IsParagraphWithBold ==
    /\ Len(fed) = 6
    /\ IsStart(fed[1], {"p"}) /\ IsData(fed[2])
    /\ IsStart(fed[3], {"strong", "b"}) /\ IsData(fed[4])
    /\ IsEnd(fed[5], {"strong", "b"}) /\ IsEnd(fed[6], {"p"})

\* C5: a <p> with plain text followed by a <strong> span yields the character
\* data in document order ending in exactly one trailing newline, and exactly
\* one bold range, over the characters between <strong> and </strong>.
C5_ParagraphWithBold ==
    (Parsed /\ IsParagraphWithBold) =>
        /\ text = WithTrailingNL(fed[2].data \o fed[4].data)
        /\ formatting_ranges =
              << [type |-> "bold", start |-> Len(fed[2].data),
                  end |-> Len(fed[2].data) + Len(fed[4].data), url |-> None] >>
        /\ SubSeq(text, formatting_ranges[1].start + 1, formatting_ranges[1].end)
              = fed[4].data

C5_Witness ==
    /\ pc = "done" /\ IsParagraphWithBold
    /\ fed[2].data = Hello /\ fed[4].data = World
    /\ text = Hello \o World \o <<NL>>

-----------------------------------------------------------------------------
(* C6 *)

FedIdx == 1..Len(fed)

\* the <a> start tags of the input whose href is a non-empty string
LinksWithHref ==
    {i \in FedIdx : IsStart(fed[i], {"a"}) /\ Truthy(AttrsGet(fed[i].attrs, "href", ""))}

LinkRequests == {k \in ReqIdx : "link" \in requests[k].fields}

\* fed is <a> d </a> with no href, an empty href or a valueless href
IsLinkWithoutHref ==
    /\ Len(fed) = 3
    /\ IsStart(fed[1], {"a"}) /\ 1 \notin LinksWithHref
    /\ IsData(fed[2]) /\ IsEnd(fed[3], {"a"})

\* C6: an <a> element with no href (or an empty one) contributes its content
\* to the text but produces no link style operation: there are never more link
\* operations than <a> tags with a non-empty href, and '<a>click</a>' yields
\* text "click" and no operation.
C6_LinkWithoutHrefGivesNoOperation ==
    pc = "done" =>
        /\ Cardinality(LinkRequests) <= Cardinality(LinksWithHref)
        /\ IsLinkWithoutHref =>
              /\ text = fed[2].data
              /\ requests = <<>>
              /\ Len(formatting_ranges) = 1

C6_Witness ==
    /\ pc = "done" /\ IsLinkWithoutHref
    /\ text = World
    /\ formatting_ranges[1].type = "link" /\ requests = <<>>

-----------------------------------------------------------------------------
(* C7 *)

\* the kind handle_starttag pushes for a tag ("" when it pushes nothing)
KindOfTag(tag) ==
    IF tag \in {"strong", "b"} THEN "bold"
    ELSE IF tag \in {"em", "i"} THEN "italic"
    ELSE IF tag = "u" THEN "underline"
    ELSE IF tag = "a" THEN "link"
    ELSE IF tag = "h2" THEN "heading2"
    ELSE IF tag = "h3" THEN "heading3"
    ELSE IF tag = "blockquote" THEN "blockquote"
    ELSE ""

Kinds == {"bold", "italic", "underline", "link", "heading2", "heading3", "blockquote"}

Closings(kind) == {i \in FedIdx : fed[i].type = "endtag" /\ KindOfTag(fed[i].tag) = kind}

RangesOf(kind) == {i \in RangeIdx : formatting_ranges[i].type = kind}

\* fed is one recognized opening tag followed by text, and nothing else
IsUnclosedTagThenText ==
    /\ Len(fed) = 2
    /\ fed[1].type = "starttag" /\ KindOfTag(fed[1].tag) # ""
    /\ IsData(fed[2])

\* C7: an opening tag never closed emits no range and raises no error, and
\* the text after it is kept: a kind has at most as many ranges as closing
\* tags, the parse is returned whatever is left open, and "<strong>bold text"
\* gives text "bold text" and no range.
C7_UnclosedTagEmitsNothing ==
    (pc \in {"returned", "done"} /\ html_content = "str") =>
        /\ ret_text = PyStr(text) /\ ret_parser = PyParser
        /\ \A kind \in Kinds :
              Cardinality(RangesOf(kind)) <= Cardinality(Closings(kind))
        /\ IsUnclosedTagThenText =>
              /\ text = fed[2].data
              /\ formatting_ranges = <<>>

C7_Witness ==
    /\ pc = "done" /\ IsUnclosedTagThenText
    /\ fed[1].tag = "strong" /\ text = World
    /\ formatting_ranges = <<>> /\ tag_stack = <<<<"bold", 0>>>>

-----------------------------------------------------------------------------
(* C8 *)

HeadingKind(tag) == IF tag = "h2" THEN "heading2" ELSE "heading3"

\* the step is handle_endtag of </h2> or </h3>
ClosesHeading ==
    /\ pc = "feed" /\ Len(fed') = Len(fed) + 1
    /\ IsEnd(fed'[Len(fed')], {"h2", "h3"})

\* the start offsets of the open headings of the kind being closed
OpenHeadingStarts ==
    {tag_stack[i][2] : i \in {j \in 1..Len(tag_stack) :
                               tag_stack[j][1] = HeadingKind(fed'[Len(fed')].tag)}}

HeadingCloseStep ==
    ClosesHeading =>
        /\ text' = WithTrailingNL(text)
        /\ Len(text') <= Len(text) + 1
        /\ \/ formatting_ranges' = formatting_ranges
           \/ /\ Len(formatting_ranges') = Len(formatting_ranges) + 1
              /\ SubSeq(formatting_ranges', 1, Len(formatting_ranges)) = formatting_ranges
              /\ LET r == formatting_ranges'[Len(formatting_ranges')]
                 IN  /\ r.type = HeadingKind(fed'[Len(fed')].tag)
                     /\ r.end = Len(text)
                     /\ r.start \in OpenHeadingStarts
                     /\ SubSeq(text', r.start + 1, r.end)
                           = SubSeq(text, r.start + 1, Len(text))

\* fed is <h2> d1 </h2> d2 (or the same with h3)
IsHeadingThenBody ==
    /\ Len(fed) = 4
    /\ IsStart(fed[1], {"h2", "h3"}) /\ IsData(fed[2])
    /\ IsEnd(fed[3], {fed[1].tag}) /\ IsData(fed[4])

HeadingThenBody ==
    (Parsed /\ IsHeadingThenBody) =>
        /\ text = WithTrailingNL(fed[2].data) \o fed[4].data
        /\ formatting_ranges =
              << [type |-> HeadingKind(fed[1].tag), start |-> 0,
                  end |-> Len(fed[2].data), url |-> None] >>

\* C8: closing an <h2> or <h3> appends one newline unless the text already
\* ends in one, and the heading range ends before that forced newline, over
\* the heading's own content; "<h2>Title</h2>Body" gives "Title\nBody" with a
\* heading-2 range over "Title" only.
C8_HeadingForcesNewlineAfterRange ==
    [][HeadingCloseStep]_vars /\ []HeadingThenBody

C8_Witness ==
    /\ pc = "done" /\ IsHeadingThenBody
    /\ fed[1].tag = "h2" /\ fed[2].data = World
    /\ text = World \o <<NL>> \o World
    /\ formatting_ranges[1].end = Len(World)

-----------------------------------------------------------------------------
(* C9 *)

\* the range gives a request (RequestsFor appends one)
Emits(fmt) == RequestsFor(fmt, 0, 0) # <<>>

EmittingRanges == SelectSeq(formatting_ranges, Emits)

\* C9: for every base offset b, each style operation's start and end are the
\* start and end of its range plus b.
C9_RequestsShiftedByStartIndex ==
    pc = "done" =>
        /\ Len(requests) = Len(EmittingRanges)
        /\ \A k \in ReqIdx :
              /\ requests[k].range.startIndex = EmittingRanges[k].start + start_index
              /\ requests[k].range.endIndex = EmittingRanges[k].end + start_index

C9_Witness ==
    /\ pc = "done" /\ start_index = 1
    /\ Len(requests) >= 2
    /\ requests[2].range.startIndex = formatting_ranges[2].start + 1
    /\ formatting_ranges[2].start > 0

-----------------------------------------------------------------------------
(* C10 *)

\* the step is the call of get_docs_requests
GetDocsRequestsStep == pc = "returned" /\ pc' = "done"

\* C10: get_docs_requests is total (it can be called on every parse and
\* returns a list), leaves the ranges and the rest of the parser unchanged,
\* and skips a range of a kind it does not know (blockquote) without an
\* operation.
C10_TotalFrameAndSkip ==
    /\ [][GetDocsRequestsStep => UNCHANGED parserVars]_vars
    /\ []((pc = "returned" /\ ret_parser = PyParser) => ENABLED GetDocsRequests)
    /\ [](pc = "done" =>
            /\ Len(requests) <= Len(formatting_ranges)
                                  - Cardinality(RangesOf("blockquote"))
            /\ \A k \in ReqIdx : requests[k].fields # {})

C10_Witness ==
    /\ pc = "done"
    /\ RangesOf("blockquote") # {}
    /\ Len(requests) = Len(formatting_ranges) - 1
    /\ Len(requests) >= 1

-----------------------------------------------------------------------------
(* C11 *)

\* the attributes the table gives a kind (url: the range's url)
TableStyle(kind, url) ==
    IF kind = "bold" THEN [bold |-> TRUE]
    ELSE IF kind = "italic" THEN [italic |-> TRUE]
    ELSE IF kind = "underline" THEN [underline |-> TRUE]
    ELSE IF kind = "link" THEN
        [link |-> [url |-> url],
         foregroundColor |->
             [color |-> [rgbColor |-> [red |-> "0", green |-> "0.5", blue |-> "0.5"]]]]
    ELSE IF kind = "heading2" THEN
        [bold |-> TRUE, fontSize |-> [magnitude |-> 16, unit |-> "PT"]]
    ELSE [bold |-> TRUE, fontSize |-> [magnitude |-> 14, unit |-> "PT"]]

\* C11: the attributes of each style operation are fixed by the kind of its
\* range alone: bold, italic, underline -> that attribute true; link -> the
\* url and the fixed teal colour; heading-2 -> bold and 16pt; heading-3 ->
\* bold and 14pt; and the operation sets exactly those fields.
C11_AttributesFixedByKind ==
    pc = "done" =>
        /\ Len(requests) = Len(EmittingRanges)
        /\ \A k \in ReqIdx :
              LET want == TableStyle(EmittingRanges[k].type, EmittingRanges[k].url)
              IN  /\ requests[k].textStyle = want
                  /\ requests[k].fields = DOMAIN want

C11_Witness ==
    /\ pc = "done"
    /\ \E k \in ReqIdx :
        /\ "link" \in requests[k].fields
        /\ requests[k].textStyle.link.url = "u2"
        /\ requests[k].textStyle.foregroundColor.color.rgbColor.green = "0.5"
        /\ requests[k].range.startIndex > start_index

-----------------------------------------------------------------------------
(* C12 *)

\* the ranges that are kept: all but blockquotes and links without a url
Kept(fmt) == fmt.type # "blockquote" /\ (fmt.type = "link" => Truthy(fmt.url))

KeptRanges == SelectSeq(formatting_ranges, Kept)

UrlLessLinks ==
    {i \in RangeIdx : formatting_ranges[i].type = "link"
                        /\ ~Truthy(formatting_ranges[i].url)}

\* the kind a request was made for, read off its style
KindOfRequest(q) ==
    IF "link" \in q.fields THEN "link"
    ELSE IF "italic" \in q.fields THEN "italic"
    ELSE IF "underline" \in q.fields THEN "underline"
    ELSE IF "fontSize" \in q.fields THEN
        IF q.textStyle.fontSize.magnitude = 16 THEN "heading2" ELSE "heading3"
    ELSE "bold"

\* C12: one operation per range, in the order of the ranges, except that
\* links without a url and blockquotes give none: the number of operations is
\* the number of ranges minus those.
C12_OneOperationPerKeptRangeInOrder ==
    pc = "done" =>
        /\ Len(requests) = Len(formatting_ranges) - Cardinality(UrlLessLinks)
                              - Cardinality(RangesOf("blockquote"))
        /\ Len(requests) = Len(KeptRanges)
        /\ \A k \in ReqIdx :
              /\ KindOfRequest(requests[k]) = KeptRanges[k].type
              /\ requests[k].range.startIndex - start_index = KeptRanges[k].start
              /\ requests[k].range.endIndex - start_index = KeptRanges[k].end

C12_Witness ==
    /\ pc = "done"
    /\ UrlLessLinks # {}
    /\ Len(requests) >= 1
    /\ Len(requests) < Len(formatting_ranges)

-----------------------------------------------------------------------------
(* Handler steps *)

\* the step is one handler call of parser.feed
HandlerStep == pc = "feed" /\ pc' = "feed" /\ Len(fed') = Len(fed) + 1

\* the token the step handles
Handled == fed'[Len(fed')]

StartStep(tags) == HandlerStep /\ IsStart(Handled, tags)
EndStep(tags) == HandlerStep /\ IsEnd(Handled, tags)

\* the indices of the stack entries of a kind
EntriesOf(kind) == {i \in 1..Len(tag_stack) : tag_stack[i][1] = kind}

IsPrefix(s, t) == Len(s) <= Len(t) /\ SubSeq(t, 1, Len(s)) = s

\* the ranges list is unchanged, or one range was appended to it
AppendedOrSame(old, new) ==
    new = old \/ (Len(new) = Len(old) + 1 /\ IsPrefix(old, new))

-----------------------------------------------------------------------------
(* C15 *)

UnknownTagStep ==
    /\ HandlerStep
    /\ Handled.type \in {"starttag", "endtag"}
    /\ Handled.tag \notin SupportedTags

\* fed is <span> d </span>
IsUnknownElement ==
    /\ Len(fed) = 3
    /\ IsStart(fed[1], {"span"}) /\ IsData(fed[2]) /\ IsEnd(fed[3], {"span"})

\* C15: a tag outside the supported vocabulary is transparent: its opening
\* and closing tags add no characters, push nothing and emit no range, and the
\* character data inside it is kept.
C15_UnknownTagTransparent ==
    /\ [][UnknownTagStep => UNCHANGED parserVars]_vars
    /\ [][(HandlerStep /\ IsData(Handled)) =>
            /\ text' = text \o Handled.data
            /\ UNCHANGED <<formatting_ranges, tag_stack, link_url>>]_vars
    /\ [](IsUnknownElement =>
            text = fed[2].data /\ formatting_ranges = <<>> /\ tag_stack = <<>>)

C15_Witness ==
    /\ pc = "done" /\ IsUnknownElement
    /\ text = Hello /\ formatting_ranges = <<>> /\ tag_stack = <<>>

-----------------------------------------------------------------------------
(* C17 *)

\* C17: each <br> appends exactly one newline, whatever the text ends with,
\* and changes neither the stack nor the ranges.
C17_BrAppendsOneNewline ==
    [][StartStep({"br"}) =>
          /\ text' = Append(text, NL)
          /\ UNCHANGED <<tag_stack, formatting_ranges, link_url>>]_vars

\* a <br> handled on a text that already ended in a newline
C17_Witness ==
    /\ pc = "feed" /\ Len(fed) >= 2
    /\ IsStart(fed[Len(fed)], {"br"})
    /\ Len(text) >= 2 /\ text[Len(text)] = NL /\ text[Len(text) - 1] = NL
    /\ tag_stack # <<>>

-----------------------------------------------------------------------------
(* C18 *)

\* the step is handle_endtag of a tag that closes a kind of range
ClosingStep == HandlerStep /\ Handled.type = "endtag" /\ KindOfTag(Handled.tag) # ""

ClosesInnermostOfItsKind ==
    ClosingStep =>
        LET kind == KindOfTag(Handled.tag)
            own == EntriesOf(kind)
        IN  IF own = {}
            THEN tag_stack' = tag_stack /\ formatting_ranges' = formatting_ranges
            ELSE LET top == CHOOSE i \in own : \A j \in own : j <= i
                 IN  /\ Len(tag_stack') = Len(tag_stack) - 1
                     /\ \A i \in 1..Len(tag_stack') :
                           tag_stack'[i] = IF i < top THEN tag_stack[i]
                                           ELSE tag_stack[i + 1]
                     /\ AppendedOrSame(formatting_ranges, formatting_ranges')
                     /\ (Len(text) > tag_stack[top][2]) =>
                           /\ formatting_ranges' # formatting_ranges
                           /\ LET r == formatting_ranges'[Len(formatting_ranges')]
                              IN  /\ r.type = kind
                                  /\ r.start = tag_stack[top][2]
                                  /\ r.end = Len(text)

\* C18: a closing tag removes the most recently pushed entry of its own kind,
\* also below entries of other kinds; it removes at most one entry, leaves the
\* other entries in place and in order, and the range ends at the text length
\* of that moment.
C18_ClosesInnermostOfItsKind == [][ClosesInnermostOfItsKind]_vars

\* <strong><em>text</strong>: the bold entry is closed from under the italic one
C18_Witness ==
    /\ pc = "feed" /\ Len(fed) = 4
    /\ IsStart(fed[1], {"strong"}) /\ IsStart(fed[2], {"em"})
    /\ IsData(fed[3]) /\ IsEnd(fed[4], {"strong"})
    /\ tag_stack = <<<<"italic", 0>>>>
    /\ formatting_ranges = <<[type |-> "bold", start |-> 0, end |-> Len(World), url |-> None]>>

-----------------------------------------------------------------------------
(* C19 *)

\* the <a> and </a> tokens handled so far
LinkTags == {i \in FedIdx : fed[i].type \in {"starttag", "endtag"} /\ fed[i].tag = "a"}

\* link_url is the href of the last <a> when no </a> followed it, else None
LinkUrlIsLastOpened ==
    IF LinkTags = {} THEN link_url = None
    ELSE LET l == CHOOSE i \in LinkTags : \A j \in LinkTags : j <= i
         IN  IF fed[l].type = "starttag"
             THEN link_url = AttrsGet(fed[l].attrs, "href", "")
             ELSE link_url = None

LinkOpenStep ==
    StartStep({"a"}) =>
        /\ link_url' = AttrsGet(Handled.attrs, "href", "")
        /\ tag_stack' = Append(tag_stack, <<"link", Len(text)>>)

\* the text offset at which the token fed[l] was handled
OffsetAt(l) == Len(feed(NewParser, SubSeq(fed, 1, l - 1)).text)

LinkCloseStep ==
    EndStep({"a"}) =>
        /\ link_url' = None
        /\ AppendedOrSame(formatting_ranges, formatting_ranges')
        /\ formatting_ranges' # formatting_ranges =>
              LET r == formatting_ranges'[Len(formatting_ranges')]
                  l == CHOOSE i \in LinkTags : \A j \in LinkTags : j <= i
              IN  /\ r.type = "link" /\ r.url = link_url
                  /\ fed[l].type = "starttag" =>
                        /\ r.url = AttrsGet(fed[l].attrs, "href", "")
                        /\ r.start = OffsetAt(l)
                        /\ r.end = Len(text)

\* C19: the current link URL is one variable, set on every <a> and cleared on
\* every </a>; a link closed while it is the last-opened one records its own
\* URL for the whole span it was open, also when it is nested in another link.
C19_LinkUrlSetOnOpenClearedOnClose ==
    /\ []LinkUrlIsLastOpened
    /\ [][LinkOpenStep]_vars
    /\ [][LinkCloseStep]_vars

\* <a href=u1><a href=u2>text</a></a>: the inner link records u2, the outer
\* one, closed after the url was cleared, records None
C19_Witness ==
    /\ pc = "done"
    /\ Len(formatting_ranges) = 2
    /\ formatting_ranges[1].url = "u2"
    /\ formatting_ranges[2].url = None
    /\ {i \in LinkTags : fed[i] = Href("u1")} # {}
    /\ Len(requests) = 1

-----------------------------------------------------------------------------
(* C20 *)

\* C20: the ranges list is append-only and ordered by closing time: every
\* step leaves the ranges already emitted unchanged and in place, a step
\* appends at most one, and a range closed earlier (at a shorter text) comes
\* before one closed later.
C20_RangesAppendOnlyInClosingOrder ==
    /\ [][AppendedOrSame(formatting_ranges, formatting_ranges')]_vars
    /\ [][formatting_ranges' # formatting_ranges => ClosingStep]_vars
    /\ [](\A i, j \in RangeIdx :
            i < j => formatting_ranges[i].end <= formatting_ranges[j].end)

\* the range opened last was closed, and listed, first
C20_Witness ==
    /\ pc = "done"
    /\ Len(formatting_ranges) = 2
    /\ ~SameKind(1, 2)
    /\ formatting_ranges[1].start > formatting_ranges[2].start
    /\ formatting_ranges[1].end <= formatting_ranges[2].end

-----------------------------------------------------------------------------
(* C16 *)

\* C16 (as claimed): opening a <p> or a <div> appends one newline exactly when
\* the text is non-empty and does not end in a newline, and otherwise leaves
\* the text unchanged; it never pushes a stack entry or emits a range.
C16_ParagraphOrDivOpenSeparates ==
    [][StartStep({"p", "div"}) =>
          /\ text' = IF Len(text) > 0 /\ ~EndsWithNL(text)
                     THEN Append(text, NL) ELSE text
          /\ UNCHANGED <<tag_stack, formatting_ranges>>]_vars

-----------------------------------------------------------------------------
(* C13 *)

\* what call c's parser holds when the call runs alone on what it was fed
Alone(c) == feed(NewParser, calls[c].fed)

\* C13: translator invocations share no mutable state: with the handler calls
\* of two parse calls interleaved in any order, the text each call returns, the
\* ranges of the parser it returns and the requests its caller gets from it are
\* those of the same call run alone
C13_InterleavedCallsAsAlone ==
    \A c \in Calls :
        calls[c].pc \in {"returned", "done"} =>
            /\ calls[c].ret_text = PyStr(Alone(c).text)
            /\ heap[calls[c].parser].formatting_ranges = Alone(c).formatting_ranges
            /\ calls[c].pc = "done" =>
                   calls[c].requests = get_docs_requests(Alone(c).formatting_ranges, 1)

\* both calls are over, each handled an event while the other was in the
\* middle of its input, and each got a bold request over its own text
C13_Witness ==
    \A c \in Calls :
        /\ calls[c].pc = "done"
        /\ calls[c].overlapped
        /\ calls[c].ret_text = PyStr(IF c = 1 THEN Hello ELSE World)
        /\ Len(calls[c].requests) = 1

-----------------------------------------------------------------------------
(* C14 *)

\* parse_html_for_docs was called and answered (None, None): feed raised
ParseFailed ==
    /\ parse_result # Unset
    /\ parse_result.parsed_text = PyNone
    /\ parse_result.parser = PyNone

ApiOps(op) == {i \in 1..Len(api_calls) : api_calls[i].op = op}

\* the response is the one the outcome of the calls after the parse gives: an
\* error is the error of the call made last
ResponseFromCallsAlone ==
    response # Unset =>
        IF api_calls[Len(api_calls)].ok
        THEN response = SuccessResponse(FALSE)
        ELSE /\ response = ErrorResponse(500)
             /\ api_calls[Len(api_calls)].op \in {"insertText", "permissions.create"}

\* after a failed parse the export goes on, with `fallback` as the text it
\* inserts, no style operations, and no error of its own
ExportsUnformatted(fallback) ==
    /\ ex_pc \in {"insert", "format", "share", "done"}
    /\ text_content = fallback
    /\ formatting_requests = <<>>
    /\ \A i \in ApiOps("insertText") : api_calls[i].body.text = fallback
    /\ ApiOps("updateTextStyle") = {}
    /\ ResponseFromCallsAlone

\* C14 as stated: when parsing the HTML fails the export goes on and exports
\* the raw original value that failed to parse as unformatted plain text, with
\* no style operations and no failure due to the parse error
C14_RawOriginalExportedClaimed ==
    ParseFailed => ExportsUnformatted(request_json.article_html)

\* C14: when parsing the HTML fails the export goes on and exports the
\* request's plain `article` value as unformatted text: that is what is
\* inserted at index 1, no style operation is sent, and the response is an
\* error only when the insertion or the permission call fails
C14_ParseFailureExportsArticle ==
    ParseFailed => ExportsUnformatted(request_json.article)

\* the parse failed and the export answered success, the article's plain text
\* inserted
C14_Witness ==
    /\ ParseFailed
    /\ response = SuccessResponse(FALSE)
    /\ \E i \in ApiOps("insertText") :
        api_calls[i].ok /\ api_calls[i].body.text = PyStr(Hello)

-----------------------------------------------------------------------------
(* C21 *)

\* the start offset of the innermost open blockquote (-1 when none is open)
OpenQuoteStart ==
    IF EntriesOf("blockquote") = {} THEN -1
    ELSE tag_stack[CHOOSE i \in EntriesOf("blockquote") :
                       \A j \in EntriesOf("blockquote") : j <= i][2]

QuoteCloseStep ==
    EndStep({"blockquote"}) =>
        /\ text' = WithTrailingNL(text)
        /\ IF OpenQuoteStart >= 0 /\ Len(text) > OpenQuoteStart
           THEN formatting_ranges' = Append(formatting_ranges,
                    [type |-> "blockquote", start |-> OpenQuoteStart,
                     end |-> Len(text), url |-> None])
           ELSE formatting_ranges' = formatting_ranges

\* fed is <blockquote> d </blockquote>
IsQuote ==
    /\ Len(fed) = 3
    /\ IsStart(fed[1], {"blockquote"}) /\ IsData(fed[2]) /\ IsEnd(fed[3], {"blockquote"})

\* C21: closing a <blockquote> emits a blockquote range over its content when
\* that content is non-empty, and then appends one newline unless the text
\* already ends in one; the range ends at the text length before the forced
\* newline.
C21_BlockquoteCloseRangeThenNewline ==
    /\ [][QuoteCloseStep]_vars
    /\ [](IsQuote =>
            /\ text = WithTrailingNL(fed[2].data)
            /\ formatting_ranges =
                  << [type |-> "blockquote", start |-> 0,
                      end |-> Len(fed[2].data), url |-> None] >>)

\* <blockquote>wo</blockquote>: text "wo\n", the range over "wo" only
C21_Witness ==
    /\ pc = "done" /\ IsQuote
    /\ text = World \o <<NL>>
    /\ formatting_ranges[1].end = Len(World)
    /\ requests = <<>>

-----------------------------------------------------------------------------
(* C22 *)

ApiIdx == 1..Len(api_calls)

\* the call before the i-th is the insertion of the text at index 1, done
InsertedJustBefore(i) ==
    /\ i > 1
    /\ api_calls[i - 1].op = "insertText"
    /\ api_calls[i - 1].body.index = 1
    /\ api_calls[i - 1].ok

\* C22: the text is placed first and the style batch second: a style batch is
\* sent to the document only after the insertion of the text at index 1 was
\* done without error, at most once, and never after a failed insertion.
C22_StyleBatchOnlyAfterInsertion ==
    /\ \A i \in ApiOps("updateTextStyle") : InsertedJustBefore(i)
    /\ Cardinality(ApiOps("updateTextStyle")) <= 1
    /\ Cardinality(ApiOps("insertText")) <= 1
    /\ (\E j \in ApiOps("insertText") : ~api_calls[j].ok) =>
          /\ ApiOps("updateTextStyle") = {}
          /\ ex_pc = "done"
          /\ response = ErrorResponse(500)

\* the text was inserted and the style batch sent after it
C22_Witness ==
    /\ Len(api_calls) = 4
    /\ api_calls[3].op = "insertText" /\ api_calls[3].ok
    /\ api_calls[4].op = "updateTextStyle"
    /\ api_calls[4].body = formatting_requests
    /\ Len(formatting_requests) > 0

-----------------------------------------------------------------------------
(* C23 *)

\* fed[l] is an <a> with a usable href, fed[m] the </a> that closes it with no
\* other <a> or </a> between the two
ClosedAsOpened(l, m) ==
    /\ l < m
    /\ l \in LinksWithHref
    /\ IsEnd(fed[m], {"a"})
    /\ \A i \in LinkTags : ~(l < i /\ i < m)

\* the request is that of the link opened by fed[l] and closed by fed[m]
IsLinkOf(q, l, m) ==
    /\ q.textStyle.link.url = AttrsGet(fed[l].attrs, "href", "")
    /\ q.range.startIndex = start_index + OffsetAt(l)
    /\ q.range.endIndex = start_index + OffsetAt(m)

RequestsOverlap(q1, q2) ==
    q1.range.startIndex < q2.range.endIndex /\ q2.range.startIndex < q1.range.endIndex

\* C23: every link style operation carries the href of the <a> tag at whose
\* offset its range starts, closed by the </a> at whose offset it ends, and no
\* two link operations of one parse overlap, whatever the nesting, repetition
\* or balance of the <a> tags.
C23_LinkOperationsOwnHrefAndDisjoint ==
    pc = "done" =>
        /\ \A k \in LinkRequests :
              \E l, m \in FedIdx : ClosedAsOpened(l, m) /\ IsLinkOf(requests[k], l, m)
        /\ \A k1, k2 \in LinkRequests :
              k1 # k2 => ~RequestsOverlap(requests[k1], requests[k2])

\* <a href=u1>text</a><a href=u2>text</a>: two link operations, one after
\* the other, each with its own href
C23_Witness ==
    /\ pc = "done"
    /\ fed = <<Href("u1"), Data(Hello), EndTag("a"), Href("u2"), Data(World), EndTag("a")>>
    /\ Cardinality(LinkRequests) = 2
    /\ IsLinkOf(requests[1], 1, 3)
    /\ IsLinkOf(requests[2], 4, 6)
    /\ requests[1].range.endIndex = requests[2].range.startIndex

-----------------------------------------------------------------------------
(* C24 *)

StackIdx == 1..Len(tag_stack)

\* the start offsets on the stack do not decrease from bottom to top and none
\* lies beyond the text
StackOrdered ==
    /\ \A i, j \in StackIdx : i < j => tag_stack[i][2] <= tag_stack[j][2]
    /\ \A i \in StackIdx : 0 <= tag_stack[i][2] /\ tag_stack[i][2] <= Len(text)

\* C24: in every state reached by any sequence of tag and text events, also
\* malformed ones: the text only grows by appending, the start offsets on the
\* stack are non-decreasing from bottom to top and at most len(text), and
\* every emitted range has 0 <= start < end <= len(text).
C24_TextGrowsStackOrderedRangesInText ==
    /\ [][IsPrefix(text, text')]_vars
    /\ []StackOrdered
    /\ [](\A i \in RangeIdx : InText(formatting_ranges[i]))

\* <strong><em>text</em><em> : two entries at different offsets under a range
C24_Witness ==
    /\ pc = "feed"
    /\ Len(tag_stack) = 2
    /\ tag_stack[1][2] < tag_stack[2][2]
    /\ tag_stack[2][2] = Len(text)
    /\ Len(formatting_ranges) = 1
    /\ formatting_ranges[1].end = Len(text)

-----------------------------------------------------------------------------
(* C25 *)

InlineTags == {"strong", "b", "em", "i", "u", "a"}

IsInlineTag(tok) == tok.type \in {"starttag", "endtag"} /\ tok.tag \in InlineTags

NotInlineTag(tok) == ~IsInlineTag(tok)

\* the input with every <strong>, <b>, <em>, <i>, <u> and <a> tag removed
WithoutInlineTags(toks) == SelectSeq(toks, NotInlineTag)

\* C25: opening and closing tags of the inline kinds never change the text:
\* no such step changes it, and the text of any input is the text of the same
\* input with every <strong>, <b>, <em>, <i>, <u> and <a> tag removed.
C25_InlineTagsLeaveTextAlone ==
    /\ [][(HandlerStep /\ IsInlineTag(Handled)) => text' = text]_vars
    /\ [](pc \in {"feed", "returned", "done"} /\ html_content = "str" =>
            text = feed(NewParser, WithoutInlineTags(fed)).text)

\* text<strong>text</strong>text: the three texts joined
C25_Witness ==
    /\ pc = "returned"
    /\ Len(fed) = MaxTokens
    /\ IsData(fed[1]) /\ IsStart(fed[2], {"strong"}) /\ IsData(fed[3])
    /\ IsEnd(fed[4], {"strong"}) /\ IsData(fed[5])
    /\ text = World \o World \o World
    /\ Len(formatting_ranges) = 1

-----------------------------------------------------------------------------
(* C26 *)

\* the closing tags handle_endtag has a branch for
ClosingTags == SupportedTags \ {"br"}

\* the closing tags that force a newline
BreakingTags == {"h2", "h3", "blockquote", "p", "div"}

\* the step handles a closing tag that has no open entry of its kind
StrayCloseStep == EndStep(ClosingTags) /\ EntriesOf(KindOfTag(Handled.tag)) = {}

\* C26: a closing tag with no open entry of its kind on the stack emits no
\* range and leaves the stack and the ranges unchanged; </h2>, </h3>,
\* </blockquote>, </p> and </div> still append a newline when the text does not
\* end in one, an empty text included, and </a> still clears the link url; the
\* other closing tags change nothing.
C26_StrayCloseKeepsStackAndRanges ==
    [][StrayCloseStep =>
        /\ UNCHANGED <<tag_stack, formatting_ranges, current_pos>>
        /\ text' = IF Handled.tag \in BreakingTags THEN WithTrailingNL(text) ELSE text
        /\ link_url' = IF Handled.tag = "a" THEN None ELSE link_url]_vars

\* a lone </h2> at the head of the input: the text is one newline
C26_Witness ==
    /\ pc = "feed"
    /\ fed = <<EndTag("h2")>>
    /\ text = <<NL>>
    /\ tag_stack = <<>> /\ formatting_ranges = <<>>

-----------------------------------------------------------------------------
(* C27 *)

\* the style batch was sent and applied without error
StyleBatchApplied == \E i \in ApiOps("updateTextStyle") : api_calls[i].ok

\* C27: the success response says formatting_applied = true only if the style
\* batch was applied to the document without error.
C27_FormattingAppliedOnlyIfApplied ==
    (response # Unset /\ response.success /\ response.formatting_applied) =>
        StyleBatchApplied

-----------------------------------------------------------------------------
(* C28 *)

Responded == response # Unset

\* the calls a success needs, in the order they are made
NeededOps == <<"files.create", "insertText", "permissions.create">>

\* the three needed calls were made in order and each was done without error,
\* the permission last of all
CreatedInsertedShared ==
    \E i, j, k \in ApiIdx :
        /\ i < j /\ j < k /\ k = Len(api_calls)
        /\ api_calls[i].op = NeededOps[1] /\ api_calls[i].ok
        /\ api_calls[j].op = NeededOps[2] /\ api_calls[j].ok
        /\ api_calls[k].op = NeededOps[3] /\ api_calls[k].ok
        /\ api_calls[k].body = [type |-> "anyone", role |-> "reader"]

\* a needed call that failed is the last call made and is answered by an error
NeededFailureIsFatal ==
    \A i \in ApiIdx :
        (api_calls[i].op \in Range(NeededOps) /\ ~api_calls[i].ok) =>
            /\ i = Len(api_calls)
            /\ ex_pc = "done"
            /\ response = ErrorResponse(500)

\* after a failed style batch the export stands before the permission call
\* or has made it, and the response is that call's outcome
StyleFailureIsNotFatal ==
    \A i \in ApiOps("updateTextStyle") :
        ~api_calls[i].ok =>
            \/ /\ ex_pc = "share" /\ ~Responded /\ i = Len(api_calls)
               /\ ENABLED ShareDocument
            \/ /\ ex_pc = "done" /\ Responded /\ i + 1 = Len(api_calls)
               /\ api_calls[i + 1].op = "permissions.create"
               /\ response.success = api_calls[i + 1].ok

\* C28: a success response is returned only after the document was created,
\* the text inserted and the public-reader permission granted, in that order;
\* a failure of any of the three yields an error response; a failure of the
\* style batch alone is not fatal: the permission is still asked for and, when
\* granted, the response is success.
C28_SuccessNeedsCreateInsertShare ==
    /\ (Responded /\ response.success) => CreatedInsertedShared
    /\ NeededFailureIsFatal
    /\ StyleFailureIsNotFatal

\* the style batch failed, the permission was granted, the answer is success
C28_Witness ==
    /\ Responded /\ response.success
    /\ CreatedInsertedShared
    /\ \E i \in ApiOps("updateTextStyle") : ~api_calls[i].ok

-----------------------------------------------------------------------------
(* C29 *)

\* the parser fed with the request's HTML
ParsedHtml == feed(NewParser, request_json.article_html.v)

\* the style batch sent as the i-th call is that of the parsed text, which is
\* the text inserted just before, and its ranges lie within that text as it
\* stands in the document from index 1 on
StylesOfInsertedText(i) ==
    /\ InsertedJustBefore(i)
    /\ request_json.article_html.tag = "str"
    /\ api_calls[i - 1].body.text = PyStr(ParsedHtml.text)
    /\ api_calls[i].body = get_docs_requests(ParsedHtml.formatting_ranges, 1)
    /\ \A k \in 1..Len(api_calls[i].body) :
          LET q == api_calls[i].body[k]
          IN  /\ 1 <= q.range.startIndex
              /\ q.range.startIndex < q.range.endIndex
              /\ q.range.endIndex <= 1 + Len(ParsedHtml.text)

\* the content was chosen and it is the plain article: no HTML was supplied,
\* the parse failed, or the parsed text is empty
FellBack ==
    /\ text_content # Unset
    /\ \/ parse_result = Unset
       \/ ~PyTruthy(parse_result.parsed_text)
       \/ ~PyTruthy(parse_result.parser)

\* C29: whenever style operations are sent, the text inserted at index 1 is
\* the parsed text they were computed from, so every operation's range lies
\* within [1, 1 + len(inserted text)]; when the export falls back to the plain
\* article text (parse failure, empty parsed text or no HTML supplied) no
\* style operation is sent.
C29_StylesMatchInsertedText ==
    /\ \A i \in ApiOps("updateTextStyle") : StylesOfInsertedText(i)
    /\ FellBack =>
          /\ text_content = request_json.article
          /\ formatting_requests = <<>>
          /\ ApiOps("updateTextStyle") = {}
          /\ \A j \in ApiOps("insertText") :
                api_calls[j].body.text = request_json.article

\* <h2>h <a href=u1>wo</a></h2>: "h wo\n" inserted, then a link operation
\* over [3, 5) and a heading operation over [1, 5)
C29_Witness ==
    /\ Len(api_calls) >= 4
    /\ api_calls[4].op = "updateTextStyle"
    /\ api_calls[3].body.text = PyStr(Hello \o World \o <<NL>>)
    /\ Len(api_calls[4].body) = 2
    /\ api_calls[4].body[1].range = [startIndex |-> 3, endIndex |-> 5]
    /\ api_calls[4].body[2].range = [startIndex |-> 1, endIndex |-> 5]
    /\ request_json.article = PyStr(Hello)

-----------------------------------------------------------------------------
(* C30 *)

FolderConfigured == PyTruthy(request_json.folder_id)

\* the calls that make or change a document
DocumentOps == {"files.create", "insertText", "updateTextStyle", "permissions.create"}

NoDocumentTouched == \A i \in ApiIdx : api_calls[i].op \notin DocumentOps

\* the folder-access check was made and failed
FolderCheckFailed == \E i \in ApiOps("files.get") : ~api_calls[i].ok

\* C30: no Drive document is created unless a folder id is configured and the
\* folder-access check was done without error; with a missing folder id or a
\* failed access check the response is an error and no document is created, no
\* text inserted and no permission granted.
C30_NoDocumentWithoutFolder ==
    /\ \A i \in ApiOps("files.create") :
          /\ FolderConfigured
          /\ i > 1 /\ api_calls[i - 1].op = "files.get" /\ api_calls[i - 1].ok
          /\ api_calls[i - 1].body = request_json.folder_id
    /\ ~FolderConfigured =>
          /\ api_calls = <<>>
          /\ ex_pc \in {"request", "folder", "done"}
          /\ Responded => ~response.success
          /\ (ex_pc = "folder" => ENABLED FolderNotConfigured /\ ~ENABLED CheckFolder)
    /\ FolderCheckFailed =>
          /\ NoDocumentTouched
          /\ ex_pc = "done"
          /\ response = ErrorResponse(500)

\* the folder is configured, its access check failed: 500 and nothing created
C30_Witness ==
    /\ FolderConfigured
    /\ FolderCheckFailed
    /\ Len(api_calls) = 1
    /\ response = ErrorResponse(500)

====
